---------------------------- MODULE Spec2Model ----------------------------
(***************************************************************************)
(* A model of build.js, the static-asset build script of gullu-games.      *)
(*                                                                         *)
(* The file system is one tree rooted at the working directory '.', which  *)
(* is both config.inputDir and the parent of config.outputDir ('./dist').  *)
(* A file name is a sequence of characters, a path a sequence of names     *)
(* relative to '.', a file's text a sequence of tokens.  A directory is an *)
(* entry of the file system whose value is dirMark.  File system errors    *)
(* (unreadable source, unwritable destination) are not modelled.           *)
(***************************************************************************)
EXTENDS Naturals, Sequences, FiniteSets

VARIABLES
    fs,           \* the entries below '.': path -> text of a file, or dirMark
    cfg,          \* the config object
    pc,           \* where the process is: load, build, walk, stage, copy, done, failed
    stack,        \* the pending for-loops of processDirectory / copyDir, innermost last
    fileMapping,  \* the Map original name -> obfuscated name, in insertion order
    log,          \* what was written and reported on the console, in order
    run,          \* which invocation of the script this is
    prevOut       \* the output tree the previous invocation left behind

vars == <<fs, cfg, pc, stack, fileMapping, log, run, prevOut>>

(***************************** bounds **************************************)
MaxFiles == 3
MaxRuns == 2
NumHashes == 2
MaxCssLen == 8

(***************************** names ***************************************)
nDist == <<"d","i","s","t">>
nNodeModules == <<"n","o","d","e","_","m","o","d","u","l","e","s">>
nGit == <<".","g","i","t">>
nGitignore == <<".","g","i","t","i","g","n","o","r","e">>
nPackageJson == <<"p","a","c","k","a","g","e",".","j","s","o","n">>
nPackageLockJson == <<"p","a","c","k","a","g","e","-","l","o","c","k",".","j","s","o","n">>
nBuildJs == <<"b","u","i","l","d",".","j","s">>
nReadme == <<"R","E","A","D","M","E",".","m","d">>
nDsStore == <<".","D","S","_","S","t","o","r","e">>
nOldIndex == <<"o","l","d","-","i","n","d","e","x",".","h","t","m","l">>
nData == <<"d","a","t","a">>
nLlm == <<"l","l","m">>
nSub == <<"s","u","b">>
nAJs == <<"a",".","j","s">>
nDataJs == <<"d","a","t","a",".","j","s">>
nXJs == <<"x",".","j","s">>
nIndexHtml == <<"i","n","d","e","x",".","h","t","m","l">>
nStyleCss == <<"s","t","y","l","e",".","C","S","S">>
nXJson == <<"x",".","j","s","o","n">>
nXPdf == <<"x",".","p","d","f">>
nMJson == <<"m",".","J","S","O","N">>
nStale == <<"s","t","a","l","e",".","j","s">>

\* config.inputDir is '.', the root of every path here
inputDir == <<>>

\* config.outputDir is './dist'
outputDir == <<nDist>>

\* config.exclude
exclude ==
    {nNodeModules, nDist, nGit, nGitignore, nPackageJson, nPackageLockJson,
     nBuildJs, nReadme, nDsStore, nOldIndex}

(***************************** path helpers ********************************)
Last(s) == s[Len(s)]

Front(s) == SubSeq(s, 1, Len(s) - 1)

IsPrefix(p, q) == Len(p) <= Len(q) /\ SubSeq(q, 1, Len(p)) = p

\* what the file system holds at a directory's path
dirMark == <<"<directory>">>

\* the entries at or below path p in file system f
Under(f, p) == {q \in DOMAIN f : IsPrefix(p, q)}

\* fs.existsSync(p); '.' always exists
ExistsSync(f, p) == p = <<>> \/ p \in DOMAIN f

\* fs.statSync(p).isDirectory()
IsDirectory(f, p) == p = <<>> \/ (p \in DOMAIN f /\ f[p] = dirMark)

\* the files (not the directories) of f
Files(f) == {q \in DOMAIN f : f[q] # dirMark}

\* fs.readdirSync(d): the names of the entries directly below d
ReaddirSync(f, d) == {q[Len(d) + 1] : q \in {r \in DOMAIN f : Len(r) = Len(d) + 1 /\ IsPrefix(d, r)}}

\* fs.mkdirSync(d, {recursive: true}): d and the ancestors of d it lacks
MkdirSync(f, d) ==
    LET made == {SubSeq(d, 1, k) : k \in 1..Len(d)} \ DOMAIN f
    IN  [q \in DOMAIN f \cup made |-> IF q \in made THEN dirMark ELSE f[q]]

\* fs.writeFileSync(p, c), fs.copyFileSync(_, p): p created or overwritten
WriteFile(f, p, c) == [q \in DOMAIN f \cup {p} |-> IF q = p THEN c ELSE f[q]]

\* RmSync deleting nothing
RmSyncKeeps(f, d) == f

\* fs.rmSync(d, {recursive: true})
RmSync(f, d) == [q \in DOMAIN f \ Under(f, d) |-> f[q]]

\* the output tree, paths relative to config.outputDir
OutTree(f) ==
    [q \in {SubSeq(r, 2, Len(r)) : r \in Under(f, outputDir) \ {outputDir}} |-> f[outputDir \o q]]

\* the source files: the files below '.' that are not below the output root
SourceFiles(f) == Files(f) \ Under(f, outputDir)

ToLowerChar(c) ==
    CASE c = "J" -> "j" [] c = "S" -> "s" [] c = "O" -> "o" [] c = "N" -> "n"
      [] c = "C" -> "c" [] c = "R" -> "r" [] c = "E" -> "e" [] c = "A" -> "a"
      [] c = "D" -> "d" [] c = "M" -> "m" [] OTHER -> c

ToLowerCase(s) == [i \in 1..Len(s) |-> ToLowerChar(s[i])]

\* path.extname(name): from the last '.' on, '' when there is none or it leads the name
ExtName(name) ==
    LET dots == {i \in 2..Len(name) : name[i] = "."}
    IN  IF dots = {} THEN <<>>
        ELSE SubSeq(name, CHOOSE i \in dots : \A j \in dots : j <= i, Len(name))

extJs == <<".","j","s">>
extHtml == <<".","h","t","m","l">>
extHtm == <<".","h","t","m">>
extCss == <<".","c","s","s">>
extJson == <<".","j","s","o","n">>

(***************************** exclusion ***********************************)
\* shouldExclude(filePath); relativePath is filePath itself, inputDir being '.'.
\* Every entry of config.exclude is a single name, so 'relativePath starts
\* with excluded + path.sep' is 'the first component is excluded and more follow'.
shouldExclude(filePath) ==
    \E excluded \in exclude :
        \/ filePath = <<excluded>>
        \/ (Len(filePath) > 1 /\ filePath[1] = excluded)
        \/ (Len(filePath) > 0 /\ Last(filePath) = excluded)

(***************************** texts ***************************************)
\* A text is a sequence of tokens.  JavaScript is a sequence of opaque
\* statements; HTML is a sequence of characters and of the tokens srcDq, srcSq
\* (the text src=" and src=') and dq, sq (the quotes " and '); CSS is a
\* sequence of characters.
srcDq == "src=dq"
srcSq == "src=sq"
dq == "dq"
sq == "sq"

\* a token holding a quote character
HasQuote(t) == t \in {srcDq, srcSq, dq, sq}

\* terser's minify(code, options) throws on code it cannot parse
syntaxError == "syntax error"

TerserThrows(code) == \E i \in 1..Len(code) : code[i] = syntaxError

\* result.code of terser's minify: the external minifier, a text that is not its input
Terser(code) == <<"terser(">> \o code \o <<")">>

\* html-minifier-terser throws on markup it cannot parse
parseError == "parse error"

MinifyHTMLThrows(html) == \E i \in 1..Len(html) : html[i] = parseError

\* the result of html-minifier-terser's minify
MinifyHTML(html) == <<"htmlmin(">> \o html \o <<")">>

\* getAntiTamperCode without the test for an empty list
getAntiTamperCodeUnlessNull(c) ==
    IF ~c.allowedDomains.set
    THEN <<>>
    ELSE <<"(function(){var a=">> \o c.allowedDomains.list \o <<";...})();">>

\* getAntiTamperCode(): '' when allowedDomains is null or empty, else the guard
\* snippet, which embeds JSON.stringify(allowedDomains)
getAntiTamperCode(c) ==
    IF ~c.allowedDomains.set \/ Len(c.allowedDomains.list) = 0
    THEN <<>>
    ELSE <<"(function(){var a=">> \o c.allowedDomains.list \o <<";...})();">>

\* the first eight hex digits of an md5 digest
HashLen == 8

HexDigit == <<"a","b","c","d","e","f","0","1","2","3","4","5","6","7","8","9">>

\* the digests the model lets md5(originalName + Date.now()) take: Date.now() is
\* an input of the run, so which digest a name gets is not determined
Hashes == {[k \in 1..HashLen |-> IF k < HashLen THEN "0" ELSE HexDigit[i]] : i \in 1..NumHashes}

\* generateObfuscatedName(originalName), hash being the truncated digest
generateObfuscatedName(originalName, hash) == hash \o ExtName(originalName)

\* fileMapping.set(k, v): a Map keeps a key's first insertion position
MapSet(m, k, v) ==
    IF \E i \in 1..Len(m) : m[i][1] = k
    THEN [i \in 1..Len(m) |-> IF m[i][1] = k THEN <<k, v>> ELSE m[i]]
    ELSE Append(m, <<k, v>>)

\* a token that is one character, which the '.' of a pattern can match
IsChar(t) == t \notin {srcDq, srcSq, parseError}

\* whether originalName, read as a regular expression, matches html at p: the
\* '.' of a file name matches any character, a quote too (the names modelled
\* hold no other metacharacter)
NameAt(html, p, originalName) ==
    /\ p + Len(originalName) - 1 <= Len(html)
    /\ \A k \in 1..Len(originalName) :
           IF originalName[k] = "."
           THEN IsChar(html[p + k - 1])
           ELSE html[p + k - 1] = originalName[k]

\* the index of the first quote-bearing token of html after i, or past the end
NextQuote(html, i) ==
    LET js == {j \in (i + 1)..Len(html) : HasQuote(html[j])}
    IN  IF js = {} THEN Len(html) + 1 ELSE CHOOSE j \in js : \A k \in js : j <= k

\* where [^"']*originalName["'] can place originalName after the opening at i:
\* after quote-free text only, and before a closing quote
NameStarts(html, i, originalName) ==
    {p \in (i + 1)..NextQuote(html, i) :
        /\ NameAt(html, p, originalName)
        /\ p + Len(originalName) <= Len(html)
        /\ html[p + Len(originalName)] \in {dq, sq}}

\* html.replace(new RegExp(`src=["']([^"']*${originalName})["']`, 'g'),
\*              `src="${obfuscatedName}"`), scanning from token i; the greedy
\* [^"']* takes the last place originalName fits
RECURSIVE ReplaceSrcFrom(_, _, _, _)
ReplaceSrcFrom(html, i, originalName, obfuscatedName) ==
    IF i > Len(html) THEN <<>>
    ELSE LET ps == IF html[i] \in {srcDq, srcSq}
                   THEN NameStarts(html, i, originalName)
                   ELSE {}
         IN  IF ps # {}
             THEN LET p == CHOOSE x \in ps : \A y \in ps : y <= x
                  IN  <<srcDq>> \o obfuscatedName \o <<dq>>
                      \o ReplaceSrcFrom(html, p + Len(originalName) + 1,
                                        originalName, obfuscatedName)
             ELSE <<html[i]>> \o ReplaceSrcFrom(html, i + 1, originalName, obfuscatedName)

ReplaceSrc(html, originalName, obfuscatedName) ==
    ReplaceSrcFrom(html, 1, originalName, obfuscatedName)

\* fileMapping.forEach(...): every mapping applied in insertion order, each to
\* the result of the one before
RECURSIVE RewriteRefs(_, _, _)
RewriteRefs(html, m, k) ==
    IF k > Len(m) THEN html
    ELSE RewriteRefs(ReplaceSrc(html, m[k][1], m[k][2]), m, k + 1)

(***************************** CSS *****************************************)
IsSpace(c) == c \in {" ", "\t", "\n"}

IsPunct(c) == c \in {"{", "}", ":", ";", ","}

\* the index of the first "*/" of css at or after i, or 0
CommentEnd(css, i) ==
    LET js == {j \in i..(Len(css) - 1) : css[j] = "*" /\ css[j + 1] = "/"}
    IN  IF js = {} THEN 0 ELSE CHOOSE j \in js : \A k \in js : j <= k

\* css.replace(/\/\*[\s\S]*?\*\//g, '')
RECURSIVE StripComments(_, _)
StripComments(css, i) ==
    IF i > Len(css) THEN <<>>
    ELSE IF i < Len(css) /\ css[i] = "/" /\ css[i + 1] = "*" /\ CommentEnd(css, i + 2) > 0
         THEN StripComments(css, CommentEnd(css, i + 2) + 2)
         ELSE <<css[i]>> \o StripComments(css, i + 1)

\* the index after the run of white space starting at i
RECURSIVE SkipSpace(_, _)
SkipSpace(css, i) ==
    IF i <= Len(css) /\ IsSpace(css[i]) THEN SkipSpace(css, i + 1) ELSE i

\* .replace(/\s+/g, ' ')
RECURSIVE CollapseSpace(_, _)
CollapseSpace(css, i) ==
    IF i > Len(css) THEN <<>>
    ELSE IF IsSpace(css[i])
         THEN <<" ">> \o CollapseSpace(css, SkipSpace(css, i))
         ELSE <<css[i]>> \o CollapseSpace(css, i + 1)

\* .replace(/\s*([{}:;,])\s*/g, '$1')
RECURSIVE StripAroundPunct(_, _)
StripAroundPunct(css, i) ==
    IF i > Len(css) THEN <<>>
    ELSE LET p == SkipSpace(css, i)
         IN  IF p <= Len(css) /\ IsPunct(css[p])
             THEN <<css[p]>> \o StripAroundPunct(css, SkipSpace(css, p + 1))
             ELSE <<css[i]>> \o StripAroundPunct(css, i + 1)

\* .trim()
RECURSIVE TrimEnd(_)
TrimEnd(css) ==
    IF Len(css) > 0 /\ IsSpace(css[Len(css)]) THEN TrimEnd(Front(css)) ELSE css

Trim(css) ==
    LET p == SkipSpace(css, 1) IN TrimEnd(SubSeq(css, p, Len(css)))

\* the CSS branch's transform
MinifyCss(css) ==
    Trim(StripAroundPunct(CollapseSpace(StripComments(css, 1), 1), 1))

(***************************** processFile *********************************)
\* MinifyJs without the catch: the throw leaves processFile
MinifyJsUncaught(code) ==
    IF TerserThrows(code)
    THEN [text |-> code, warned |-> FALSE, threw |-> TRUE]
    ELSE [text |-> Terser(code), warned |-> FALSE, threw |-> FALSE]

\* the try/catch around terser's minify: a throw is caught, warned about, and
\* the original code kept
MinifyJs(code) ==
    IF TerserThrows(code)
    THEN [text |-> code, warned |-> TRUE, threw |-> FALSE]
    ELSE [text |-> Terser(code), warned |-> FALSE, threw |-> FALSE]

\* the try/catch around html-minifier-terser's minify
MinifyHtml(html) ==
    IF MinifyHTMLThrows(html)
    THEN [text |-> html, warned |-> TRUE, threw |-> FALSE]
    ELSE [text |-> MinifyHTML(html), warned |-> FALSE, threw |-> FALSE]

NotMinified(text) == [text |-> text, warned |-> FALSE, threw |-> FALSE]

\* JsOutput minifying whatever config.minify says
JsOutputAlwaysMinified(c, code) ==
    LET min == MinifyJs(code)
    IN  [min EXCEPT !.text = getAntiTamperCode(c) \o min.text]

\* the JavaScript branch's output text
JsOutput(c, code) ==
    LET min == IF c.minify THEN MinifyJs(code) ELSE NotMinified(code)
    IN  [min EXCEPT !.text = getAntiTamperCode(c) \o min.text]

\* the HTML branch's output text, m being fileMapping
HtmlOutput(c, m, html) ==
    LET rewritten == IF c.obfuscateFilenames THEN RewriteRefs(html, m, 1) ELSE html
    IN  IF c.minify THEN MinifyHtml(rewritten) ELSE NotMinified(rewritten)

\* OutputPath with the directories of relativePath dropped
OutputPathFlat(relativePath) == outputDir \o <<Last(relativePath)>>

\* path.join(config.outputDir, relativePath)
OutputPath(relativePath) == outputDir \o relativePath

\* processFile(filePath, relativePath) in file system f0 with fileMapping m;
\* relativePath is filePath, baseDir being '.'.  The result: the file system
\* and the mapping afterwards, the console's line, and whether it threw.
processFile(f0, c, m, filePath, hash) ==
    LET outputPath == OutputPath(filePath)
        outDir == Front(outputPath)
        f == IF ~ExistsSync(f0, outDir) THEN MkdirSync(f0, outDir) ELSE f0
        fileName == Last(filePath)
        ext == ToLowerCase(ExtName(fileName))
    IN  IF ext = extJs
        THEN LET out == JsOutput(c, f[filePath])
                 outputFileName ==
                     IF c.obfuscateFilenames
                     THEN generateObfuscatedName(fileName, hash)
                     ELSE fileName
                 finalOutputPath == outDir \o <<outputFileName>>
             IN  [fs |-> IF out.threw THEN f ELSE WriteFile(f, finalOutputPath, out.text),
                  fileMapping |-> IF c.obfuscateFilenames /\ ~out.threw
                                  THEN MapSet(m, fileName, outputFileName)
                                  ELSE m,
                  line |-> [msg |-> "Processed", src |-> filePath,
                            dst |-> finalOutputPath, warned |-> out.warned],
                  threw |-> out.threw]
        ELSE IF ext = extHtml \/ ext = extHtm
        THEN LET out == HtmlOutput(c, m, f[filePath])
             IN  [fs |-> IF out.threw THEN f ELSE WriteFile(f, outputPath, out.text),
                  fileMapping |-> m,
                  line |-> [msg |-> "Processed", src |-> filePath,
                            dst |-> outputPath, warned |-> out.warned],
                  threw |-> out.threw]
        ELSE IF ext = extCss /\ c.minify
        THEN [fs |-> WriteFile(f, outputPath, MinifyCss(f[filePath])),
              fileMapping |-> m,
              line |-> [msg |-> "Processed", src |-> filePath,
                        dst |-> outputPath, warned |-> FALSE],
              threw |-> FALSE]
        ELSE [fs |-> WriteFile(f, outputPath, f[filePath]),
              fileMapping |-> m,
              line |-> [msg |-> "Copied", src |-> filePath,
                        dst |-> outputPath, warned |-> FALSE],
              threw |-> FALSE]

(***************************** the walk ************************************)
\* one pending for-loop: the directory and the items of it still to visit
Frame(f, dir) == [dir |-> dir, items |-> ReaddirSync(f, dir)]

\* a for-loop with nothing left returns to its caller
RECURSIVE Unwind(_)
Unwind(s) ==
    IF s # <<>> /\ s[Len(s)].items = {} THEN Unwind(Front(s)) ELSE s

\* s with item taken off its innermost loop
Taken(s, item) ==
    [s EXCEPT ![Len(s)] = [@ EXCEPT !.items = @ \ {item}]]

\* the module's top level: delete and recreate the output directory
CreateOutputDir ==
    /\ pc = "load"
    /\ fs' = MkdirSync(IF ExistsSync(fs, outputDir) THEN RmSync(fs, outputDir) ELSE fs,
                       outputDir)
    /\ pc' = "build"
    /\ UNCHANGED <<cfg, stack, fileMapping, log, run, prevOut>>

\* build() up to the first directory listing of processDirectory(config.inputDir)
Build ==
    /\ pc = "build"
    /\ stack' = Unwind(<<Frame(fs, inputDir)>>)
    /\ pc' = IF stack' = <<>> THEN "stage" ELSE "walk"
    /\ UNCHANGED <<fs, cfg, fileMapping, log, run, prevOut>>

\* what Date.now() can make of a digest; the clock is read only when file
\* names are obfuscated
DigestsNow(c) == IF c.obfuscateFilenames THEN Hashes ELSE {<<>>}

\* one iteration of processDirectory's loop, on whichever item the directory
\* listing yields next
processDirectory ==
    /\ pc = "walk"
    /\ stack # <<>>
    /\ \E item \in stack[Len(stack)].items, hash \in DigestsNow(cfg) :
         LET fullPath == stack[Len(stack)].dir \o <<item>>
             rest == Taken(stack, item)
         IN  IF shouldExclude(fullPath)
             THEN /\ stack' = Unwind(rest)
                  /\ pc' = IF stack' = <<>> THEN "stage" ELSE "walk"
                  /\ UNCHANGED <<fs, fileMapping, log>>
             ELSE IF IsDirectory(fs, fullPath)
             THEN /\ stack' = Unwind(Append(rest, Frame(fs, fullPath)))
                  /\ pc' = IF stack' = <<>> THEN "stage" ELSE "walk"
                  /\ UNCHANGED <<fs, fileMapping, log>>
             ELSE LET r == processFile(fs, cfg, fileMapping, fullPath, hash)
                  IN  /\ fs' = r.fs
                      /\ fileMapping' = r.fileMapping
                      /\ log' = IF r.threw THEN log ELSE Append(log, r.line)
                      /\ stack' = IF r.threw THEN <<>> ELSE Unwind(rest)
                      /\ pc' = IF r.threw THEN "failed"
                               ELSE IF stack' = <<>> THEN "stage" ELSE "walk"
    /\ UNCHANGED <<cfg, run, prevOut>>

(***************************** the data stager *****************************)
dataLlmSrc == <<nData, nLlm>>

\* if (!fs.existsSync(dest)) fs.mkdirSync(dest, {recursive: true})
EnsureDir(f, dest) == IF ~ExistsSync(f, dest) THEN MkdirSync(f, dest) ELSE f

\* copyDataDirectory() up to the first directory listing of copyDir
copyDataDirectory ==
    /\ pc = "stage"
    /\ IF ~ExistsSync(fs, dataLlmSrc)
       THEN /\ log' = Append(log, [msg |-> "No data/llm", src |-> dataLlmSrc,
                                   dst |-> <<>>, warned |-> TRUE])
            /\ stack' = <<>>
            /\ pc' = "done"
            /\ fs' = fs
       ELSE /\ log' = log
            /\ fs' = EnsureDir(fs, outputDir \o dataLlmSrc)
            /\ stack' = Unwind(<<Frame(fs, dataLlmSrc)>>)
            /\ pc' = IF stack' = <<>> THEN "done" ELSE "copy"
    /\ UNCHANGED <<cfg, fileMapping, run, prevOut>>

\* whether copyDir copies the file named item
IsJson(item) == ToLowerCase(ExtName(item)) = extJson

\* one iteration of copyDir's loop
copyDir ==
    /\ pc = "copy"
    /\ stack # <<>>
    /\ \E item \in stack[Len(stack)].items :
         LET srcPath == stack[Len(stack)].dir \o <<item>>
             destPath == outputDir \o srcPath
             rest == Taken(stack, item)
         IN  IF IsDirectory(fs, srcPath)
             THEN /\ fs' = EnsureDir(fs, destPath)
                  /\ stack' = Unwind(Append(rest, Frame(fs, srcPath)))
                  /\ log' = log
             ELSE IF IsJson(item)
             THEN /\ fs' = WriteFile(fs, destPath, fs[srcPath])
                  /\ log' = Append(log, [msg |-> "Copied", src |-> srcPath,
                                         dst |-> destPath, warned |-> FALSE])
                  /\ stack' = Unwind(rest)
             ELSE /\ stack' = Unwind(rest)
                  /\ UNCHANGED <<fs, log>>
    /\ pc' = IF stack' = <<>> THEN "done" ELSE "copy"
    /\ UNCHANGED <<cfg, fileMapping, run, prevOut>>

(***************************** running again *******************************)
staleText == <<"stale">>

\* the script is run again over the same source tree; in between, something
\* may have left a file in the output directory
Rerun ==
    /\ pc = "done"
    /\ run < MaxRuns
    /\ run' = run + 1
    /\ prevOut' = OutTree(fs)
    /\ fs' \in {fs, WriteFile(fs, outputDir \o <<nStale>>, staleText)}
    /\ pc' = "load"
    /\ stack' = <<>>
    /\ fileMapping' = <<>>
    /\ log' = <<>>
    /\ UNCHANGED cfg

(***************************** inputs **************************************)
jsA == <<"stmtA">>
jsBad == <<"stmtA", syntaxError>>
jsData == <<"stmtD">>
jsSub == <<"stmtS">>
jsX == <<"stmtX">>

\* <script src='a.js'></script><script src="data.js"></script>, after markup
\* the minifier cannot parse
htmlBoth ==
    <<parseError, "<", srcSq>> \o nAJs \o <<sq, ">", "<", srcDq>> \o nDataJs \o <<dq, ">">>

\* <script src="sub/a.js"></script>
htmlSub == <<"<", srcDq>> \o nSub \o <<"/">> \o nAJs \o <<dq, ">">>

cssText == <<"a", " ", "{", " ", "/", "*", "c", "*", "/", "\n", "}">>

jsonText == <<"{}">>

pdfText == <<"%PDF">>

File(path, text) == [path |-> path, text |-> text]

\* the candidate files of the transform scenarios
TransformFiles ==
    {File(<<nAJs>>, jsBad), File(<<nDataJs>>, jsData), File(<<nSub, nAJs>>, jsSub),
     File(<<nIndexHtml>>, htmlBoth), File(<<nIndexHtml>>, htmlSub),
     File(<<nStyleCss>>, cssText), File(<<nData, nLlm, nXJson>>, jsonText)}

\* the candidate files of the exclusion and data scenarios
TreeFiles ==
    {File(<<nAJs>>, jsA), File(<<nDataJs>>, jsData), File(<<nSub, nAJs>>, jsSub),
     File(<<nPackageJson>>, jsonText), File(<<nNodeModules, nXJs>>, jsX),
     File(<<nData, nLlm, nXJson>>, jsonText), File(<<nData, nLlm, nXPdf>>, pdfText),
     File(<<nData, nLlm, nPackageJson>>, jsonText),
     File(<<nData, nLlm, nNodeModules, nMJson>>, jsonText)}

\* the source trees of at most MaxFiles files drawn from candidates, with the
\* directories that hold them
Trees(candidates) ==
    {[p \in UNION {{SubSeq(v.path, 1, k) : k \in 1..Len(v.path)} : v \in S} |->
         IF \E v \in S : v.path = p THEN (CHOOSE v \in S : v.path = p).text ELSE dirMark] :
        S \in {T \in SUBSET candidates :
                  /\ Cardinality(T) <= MaxFiles
                  /\ \A a, b \in T : a.path = b.path => a = b}}

noDomains == [set |-> FALSE, list |-> <<>>]

Configs ==
    [obfuscateFilenames : BOOLEAN, minify : BOOLEAN,
     allowedDomains : {noDomains, [set |-> TRUE, list |-> <<>>],
                       [set |-> TRUE, list |-> <<"example.com">>]}]

InitOver(trees, configs) ==
    /\ fs \in trees
    /\ cfg \in configs
    /\ pc = "load"
    /\ stack = <<>>
    /\ fileMapping = <<>>
    /\ log = <<>>
    /\ run = 1
    /\ prevOut = [q \in {} |-> <<>>]

Init == InitOver(Trees(TransformFiles), Configs)

InitTree == InitOver(Trees(TreeFiles), Configs)

\* the candidate files of the repeated builds
RerunFiles ==
    TreeFiles \cup {File(<<nIndexHtml>>, htmlSub), File(<<nStyleCss>>, cssText)}

InitRerun ==
    InitOver(Trees(RerunFiles), {c \in Configs : ~c.obfuscateFilenames})

\* the characters of the style sheets tried
CssAlphabet == {"/", "*", " ", "{"}

\* the style sheets of at most MaxCssLen characters
CssTexts == UNION {[1..n -> CssAlphabet] : n \in 0..MaxCssLen}

\* a tree holding one style sheet, built with minification
InitCss ==
    /\ \E css \in CssTexts : fs = [p \in {<<nStyleCss>>} |-> css]
    /\ cfg = [obfuscateFilenames |-> FALSE, minify |-> TRUE, allowedDomains |-> noDomains]
    /\ pc = "load"
    /\ stack = <<>>
    /\ fileMapping = <<>>
    /\ log = <<>>
    /\ run = 1
    /\ prevOut = [q \in {} |-> <<>>]

\* one invocation of the script
Next ==
    \/ CreateOutputDir
    \/ Build
    \/ processDirectory
    \/ copyDataDirectory
    \/ copyDir

\* invocations one after the other
NextRerun ==
    \/ Next
    \/ Rerun

Spec == Init /\ [][Next]_vars

SpecTree == InitTree /\ [][Next]_vars

SpecRerun == InitRerun /\ [][NextRerun]_vars

\* one invocation over a tree with no data/llm, where copyDir has nothing to do
NextCss ==
    \/ CreateOutputDir
    \/ Build
    \/ processDirectory
    \/ copyDataDirectory

SpecCss == InitCss /\ [][NextCss]_vars

(***************************** properties **********************************)
\* whether path p, or a directory above it, matches an exclusion entry
ExcludedAbove(p) == \E k \in 1..Len(p) : shouldExclude(SubSeq(p, 1, k))

\* the path in the output tree that mirrors source path p
Mirror(p) == <<nDist>> \o p

\* the output files below the output root
OutputFiles(f) == Files(f) \cap Under(f, outputDir)

IsJsName(name) == ToLowerCase(ExtName(name)) = extJs

IsHtmlName(name) == ToLowerCase(ExtName(name)) \in {extHtml, extHtm}

IsCssName(name) == ToLowerCase(ExtName(name)) = extCss

\* the lines of the log that report a file written from source file p
LinesOf(p) == {i \in 1..Len(log) : log[i].src = p /\ log[i].msg # "No data/llm"}

\* C1: after a complete build no source file at or under a path that matches
\* an exclusion entry (exactly, by directory prefix or by basename) has a copy
\* in the output tree, data/llm included.
C1_NoExcludedInOutput ==
    pc = "done" =>
        \A p \in SourceFiles(fs) : ExcludedAbove(p) => Mirror(p) \notin DOMAIN fs

\* C2: after a complete build every file of the output's data/llm subtree has
\* the extension .json, in any letter case.
C2_OnlyJsonInDataLlm ==
    pc = "done" =>
        \A q \in OutputFiles(fs) : IsPrefix(Mirror(<<nData, nLlm>>), q) => ToLowerCase(ExtName(Last(q))) = extJson

\* the output path processFile is to give source file p: the mirrored path,
\* or for a .js file under obfuscation the same directory and a digest name
IsOutputPathOf(q, p) ==
    IF cfg.obfuscateFilenames /\ IsJsName(Last(p))
    THEN /\ Front(q) = Front(Mirror(p))
         /\ \E h \in Hashes : Last(q) = h \o ExtName(Last(p))
    ELSE q = Mirror(p)

\* source file p has exactly one output file, where it belongs
HasOneOutput(p) ==
    /\ Cardinality(LinesOf(p)) = 1
    /\ \A i \in LinesOf(p) :
         /\ log[i].dst \in Files(fs)
         /\ IsOutputPathOf(log[i].dst, p)

\* no two source files were written to the same output path
OutputsDistinct ==
    \A i, j \in 1..Len(log) : log[i].dst = log[j].dst => i = j

\* C3 as stated: when the walker has finished, every source file that matches
\* no exclusion rule has exactly one output file, at the mirrored path or under
\* its obfuscated name, and no two source files share an output path.
C3_AsStated ==
    pc = "stage" =>
        /\ \A p \in SourceFiles(fs) : ~shouldExclude(p) => HasOneOutput(p)
        /\ OutputsDistinct

\* C3 amended: when the walker has finished, every source file such that
\* neither it nor a directory above it matches an exclusion rule has exactly
\* one output file, at the mirrored path or under its obfuscated name; with
\* obfuscation disabled no two source files share an output path.
C3_Amended ==
    pc = "stage" =>
        /\ \A p \in SourceFiles(fs) : ~ExcludedAbove(p) => HasOneOutput(p)
        /\ ~cfg.obfuscateFilenames => OutputsDistinct

\* C3's case: the walker has finished a tree that holds a written .js file
\* in a subdirectory, renamed, and a file shielded only by an excluded directory
C3_Witness ==
    /\ pc = "stage"
    /\ cfg.obfuscateFilenames
    /\ \E p \in SourceFiles(fs) : ~shouldExclude(p) /\ ExcludedAbove(p)
    /\ \E i \in 1..Len(log) : Len(log[i].src) > 1 /\ IsJsName(Last(log[i].src))

\* the line of the log written last, if it reports a file processFile wrote
LastProcessed ==
    IF log # <<>> /\ log[Len(log)].dst # <<>> /\ pc \in {"walk", "stage"}
    THEN {log[Len(log)]}
    ELSE {}

\* the guard snippet for a list of domains
GuardSnippet(list) == <<"(function(){var a=">> \o list \o <<";...})();">>

\* html with every src attribute, quotes and value, replaced by one token
RECURSIVE MaskSrcFrom(_, _)
MaskSrcFrom(html, i) ==
    IF i > Len(html) THEN <<>>
    ELSE LET j == NextQuote(html, i)
         IN  IF html[i] \in {srcDq, srcSq} /\ j <= Len(html) /\ html[j] \in {dq, sq}
             THEN <<"src=...">> \o MaskSrcFrom(html, j + 1)
             ELSE <<html[i]>> \o MaskSrcFrom(html, i + 1)

MaskSrc(html) == MaskSrcFrom(html, 1)

\* C4 as stated: with minification disabled, whatever the other options, the
\* text written for a .js, .html/.htm or .css file is the text of its input
\* file, but for the guard snippet prepended to .js output.
C4_AsStated ==
    ~cfg.minify =>
        \A e \in LastProcessed :
            /\ IsJsName(Last(e.src)) =>
                   fs[e.dst] \in {fs[e.src], GuardSnippet(cfg.allowedDomains.list) \o fs[e.src]}
            /\ IsHtmlName(Last(e.src)) \/ IsCssName(Last(e.src)) =>
                   fs[e.dst] = fs[e.src]

\* C4 amended: with minification disabled, the text written for a .js file is
\* its input with at most the guard snippet prepended, the text written for a
\* .css file is its input, and the text written for an .html/.htm file is its
\* input when filename obfuscation is disabled and differs from its input only
\* inside src attributes when it is enabled.
C4_Amended ==
    ~cfg.minify =>
        \A e \in LastProcessed :
            /\ IsJsName(Last(e.src)) =>
                   fs[e.dst] \in {fs[e.src], GuardSnippet(cfg.allowedDomains.list) \o fs[e.src]}
            /\ IsCssName(Last(e.src)) => fs[e.dst] = fs[e.src]
            /\ IsHtmlName(Last(e.src)) =>
                   IF cfg.obfuscateFilenames
                   THEN MaskSrc(fs[e.dst]) = MaskSrc(fs[e.src])
                   ELSE fs[e.dst] = fs[e.src]

\* C4's case: minification off, obfuscation and the guard on, a .js file
\* written, and an HTML file just written with a src attribute rewritten
C4_Witness ==
    /\ ~cfg.minify
    /\ cfg.obfuscateFilenames
    /\ cfg.allowedDomains.set /\ cfg.allowedDomains.list # <<>>
    /\ \E i \in 1..Len(log) : IsJsName(Last(log[i].src))
    /\ \E e \in LastProcessed : IsHtmlName(Last(e.src)) /\ fs[e.dst] # fs[e.src]

\* the text the JavaScript branch is to write for code: the guard snippet when
\* a non-empty list of domains is configured, then the minified code when
\* minification is enabled and succeeds, else the original code
ExpectedJs(code) ==
    (IF cfg.allowedDomains.set /\ cfg.allowedDomains.list # <<>>
     THEN GuardSnippet(cfg.allowedDomains.list) ELSE <<>>)
    \o (IF cfg.minify /\ ~TerserThrows(code) THEN Terser(code) ELSE code)

\* C5: after a build every .js file of the output tree is the guard snippet
\* followed by the minified or original code of a .js source file when a
\* non-empty list of allowed domains is configured, and that code with no
\* prefix when the list is null or empty.
C5_GuardOnEveryJs ==
    pc = "done" =>
        \A q \in OutputFiles(fs) :
            IsJsName(Last(q)) =>
                \E i \in 1..Len(log) :
                    /\ log[i].dst = q
                    /\ IsJsName(Last(log[i].src))
                    /\ fs[q] = ExpectedJs(fs[log[i].src])

\* C5's case: a build with a non-empty list, minification and obfuscation has
\* ended with a renamed .js file whose minification failed and one whose
\* minification succeeded
C5_Witness ==
    /\ pc = "done"
    /\ cfg.allowedDomains.set /\ cfg.allowedDomains.list # <<>>
    /\ cfg.minify /\ cfg.obfuscateFilenames
    /\ \E i, j \in 1..Len(log) :
         /\ IsJsName(Last(log[i].src)) /\ log[i].warned
         /\ IsJsName(Last(log[j].src)) /\ ~log[j].warned
         /\ log[i].dst # log[j].dst
         /\ Last(log[i].dst) # Last(log[i].src)

\* the values of the src attributes of html, in order
RECURSIVE SrcValuesFrom(_, _)
SrcValuesFrom(html, i) ==
    IF i > Len(html) THEN <<>>
    ELSE LET j == NextQuote(html, i)
         IN  IF html[i] \in {srcDq, srcSq} /\ j <= Len(html) /\ html[j] \in {dq, sq}
             THEN <<SubSeq(html, i + 1, j - 1)>> \o SrcValuesFrom(html, j + 1)
             ELSE SrcValuesFrom(html, i + 1)

SrcValues(html) == SrcValuesFrom(html, 1)

EndsWith(value, name) ==
    Len(value) >= Len(name) /\ SubSeq(value, Len(value) - Len(name) + 1, Len(value)) = name

\* the HTML file just written under filename obfuscation, if any
LastHtml ==
    {e \in LastProcessed : cfg.obfuscateFilenames /\ IsHtmlName(Last(e.src))}

\* C6 as stated (its first half): under filename obfuscation an HTML file is
\* written with every src value that ends in an original filename recorded so
\* far rewritten to end in the name that filename is mapped to.
C6_AsStated ==
    \A e \in LastHtml :
        LET in == SrcValues(fs[e.src])
            out == SrcValues(fs[e.dst])
        IN  /\ Len(out) = Len(in)
            /\ \A k \in 1..Len(in), n \in 1..Len(fileMapping) :
                   EndsWith(in[k], fileMapping[n][1]) => EndsWith(out[k], fileMapping[n][2])

\* C6's second half: an HTML file of the output, once written, is not changed
\* by anything the build does later.
C6_HtmlStaysAsWritten ==
    [][\A q \in OutputFiles(fs) :
           IsHtmlName(Last(q)) /\ pc # "load" => q \in OutputFiles(fs') /\ fs'[q] = fs[q]]_vars

\* the path a src value names: its components between the '/'
RECURSIVE SplitPath(_)
SplitPath(value) ==
    IF \E i \in 1..Len(value) : value[i] = "/"
    THEN LET i == CHOOSE k \in 1..Len(value) :
                      value[k] = "/" /\ \A m \in 1..(k - 1) : value[m] # "/"
         IN  <<SubSeq(value, 1, i - 1)>> \o SplitPath(SubSeq(value, i + 1, Len(value)))
    ELSE <<value>>

\* C10: under filename obfuscation every src value the rewrite changes, and
\* that named a source file from where the HTML file lies, names from where
\* the HTML file is written the output file written for that source file.
C10_RewrittenSrcResolves ==
    \A e \in LastHtml :
        LET in == SrcValues(fs[e.src])
            out == SrcValues(fs[e.dst])
        IN  /\ Len(out) = Len(in)
            /\ \A k \in 1..Len(in) :
                   LET target == Front(e.src) \o SplitPath(in[k])
                   IN  out[k] # in[k] /\ target \in SourceFiles(fs) =>
                           \E i \in LinesOf(target) :
                               log[i].dst = Front(e.dst) \o SplitPath(out[k])

\* C7: a minification that throws never fails the build: the file is written
\* unminified (a .js file with the guard, an HTML file with its references
\* rewritten), and a build in which one threw still ends, with every file the
\* walker is to visit written and the .json files of data/llm staged.
C7_MinifyFailureNotFatal ==
    /\ pc # "failed"
    /\ \A e \in LastProcessed :
           e.warned =>
               fs[e.dst] = IF IsJsName(Last(e.src))
                           THEN ExpectedJs(fs[e.src])
                           ELSE IF cfg.obfuscateFilenames
                                THEN RewriteRefs(fs[e.src], fileMapping, 1)
                                ELSE fs[e.src]
    /\ (pc = "done" /\ \E i \in 1..Len(log) : log[i].warned /\ log[i].dst # <<>>) =>
           /\ \A p \in SourceFiles(fs) : ~ExcludedAbove(p) => LinesOf(p) # {}
           /\ \A p \in SourceFiles(fs) :
                  IsPrefix(<<nData, nLlm>>, p) /\ ToLowerCase(ExtName(Last(p))) = extJson =>
                      Mirror(p) \in Files(fs) /\ fs[Mirror(p)] = fs[p]

\* C7's case: a build has ended in which the minification of a .js file and of
\* an HTML file threw, a file was processed after the first of them, and
\* data/llm was staged
C7_Witness ==
    /\ pc = "done"
    /\ \E i, j \in 1..Len(log) :
         /\ i < j
         /\ log[i].warned /\ IsJsName(Last(log[i].src))
         /\ log[j].warned /\ IsHtmlName(Last(log[j].src))
    /\ log[Len(log)].msg = "Copied" /\ IsPrefix(<<nData, nLlm>>, log[Len(log)].src)

\* C8: with filename obfuscation disabled, a build over the same source tree
\* and configuration leaves the same output tree as the build before it,
\* whatever was left in the output directory in between.
C8_SameOutputAgain ==
    (pc = "done" /\ run > 1) => OutTree(fs) = prevOut

\* C8's case: a later build has ended with an output tree holding a minified
\* .js file and a staged data file
C8_Witness ==
    /\ pc = "done"
    /\ run > 1
    /\ cfg.minify
    /\ \E q \in OutputFiles(fs) : IsJsName(Last(q))
    /\ \E q \in OutputFiles(fs) : IsPrefix(Mirror(<<nData, nLlm>>), q)

\* C9: the CSS transform is idempotent: applied to a style sheet the build has
\* written, it returns that style sheet unchanged.
C9_CssMinifyIdempotent ==
    pc = "done" =>
        \A q \in OutputFiles(fs) : IsCssName(Last(q)) => MinifyCss(fs[q]) = fs[q]

=============================================================================
